---- MODULE Spec2Model ----
(***************************************************************************)
(* A model of the Ramadan quiz backend (src/main.py): the relational store *)
(* (participants, sessions, questions, answers, quiz_settings,             *)
(* push_subscriptions), the HTTP handlers that read and write it, and the  *)
(* properties of the session lifecycle, the scoring rule, the leaderboard  *)
(* and the admin content manager.                                          *)
(*                                                                         *)
(* Text values are sequences of one-character strings, so that str.strip() *)
(* and str.lower() are computed rather than assumed.  Handlers that issue  *)
(* a read and a later write in different statements or transactions        *)
(* (register, submit_answer) are split at those points; the position of    *)
(* each request in flight is kept in `inflight`.                           *)
(***************************************************************************)
EXTENDS Integers, Sequences, FiniteSets, TLC

VARIABLES
    participants,         \* table participants: set of rows
    participants_id_seq,  \* SERIAL sequence behind participants.id
    sessions,             \* table sessions: set of rows
    session_seq,          \* number of tokens uuid4() has produced so far
    questions,            \* table questions: set of rows
    questions_id_seq,     \* SERIAL sequence behind questions.id
    answers,              \* table answers: set of rows
    quiz_settings,        \* table quiz_settings: key -> value
    push_subscriptions,   \* table push_subscriptions: set of rows
    push_id_seq,          \* SERIAL sequence behind push_subscriptions.id
    now,                  \* datetime.now(), in days
    inflight,             \* request slot -> position of the request in its handler
    last                  \* the step taken last: handler, inputs, response

vars == <<participants, participants_id_seq, sessions, session_seq, questions,
          questions_id_seq, answers, quiz_settings, push_subscriptions,
          push_id_seq, now, inflight, last>>

store == <<participants, participants_id_seq, sessions, session_seq, questions,
           questions_id_seq, answers, quiz_settings, push_subscriptions,
           push_id_seq>>

----------------------------------------------------------------------------
(* Bounds of the model *)

MaxParticipantId == 2   \* values participants_id_seq may hand out
MaxSessions == 2        \* tokens uuid4() may hand out
MaxQuestionId == 1      \* values questions_id_seq may hand out
MaxPushId == 2          \* values push_subscriptions' sequence may hand out
MaxInflight == 2        \* requests that may be inside a split handler at once
MaxOptions == 7         \* longest option list a request carries
TickStep == 30          \* days the clock advances in one step
MaxTime == 60           \* last day the clock reaches

(* Program constants *)

SESSION_DAYS == 30
LEADERBOARD_LIMIT == 10
ADMIN_SECRET == "ramadan2026admin"
NoCookie == 0           \* request.cookies.get("session_id", "") without a cookie

Slots == 1..MaxInflight
Tokens == 1..MaxSessions
Idle == [pc |-> "idle"]

----------------------------------------------------------------------------
(* Text *)

Whitespace == {" ", "\t", "\n"}

RECURSIVE LStrip(_)
LStrip(s) == IF s # <<>> /\ Head(s) \in Whitespace THEN LStrip(Tail(s)) ELSE s

RECURSIVE RStrip(_)
RStrip(s) ==
    IF s # <<>> /\ s[Len(s)] \in Whitespace
    THEN RStrip(SubSeq(s, 1, Len(s) - 1))
    ELSE s

\* str.strip()
Strip(s) == RStrip(LStrip(s))

LowerChar(c) ==
    CASE c = "A" -> "a"
      [] c = "B" -> "b"
      [] OTHER -> c

\* str.lower()
Lower(s) == [i \in 1..Len(s) |-> LowerChar(s[i])]

\* bcrypt.hashpw(password, salt): the salt is kept in the hash
HashPw(password, salt) == [salt |-> salt, digest |-> <<salt, password>>]

\* bcrypt.checkpw(password, hash): hash again under the stored salt and compare
CheckPw(password, hash) == HashPw(password, hash.salt) = hash

----------------------------------------------------------------------------
(* Initial state: init_db() on an empty database *)

DefaultSettings ==
    [k \in {"quiz_open_time", "quiz_close_time", "current_day"} |->
        CASE k = "quiz_open_time" -> <<"2", "1", ":", "0", "0">>
          [] k = "quiz_close_time" -> <<"2", "2", ":", "4", "5">>
          [] OTHER -> <<"1">>]

Init ==
    /\ participants = {}
    /\ participants_id_seq = 0
    /\ sessions = {}
    /\ session_seq = 0
    /\ questions = {}
    /\ questions_id_seq = 0
    /\ answers = {}
    /\ quiz_settings = DefaultSettings
    /\ push_subscriptions = {}
    /\ push_id_seq = 0
    /\ now = 0
    /\ inflight = [s \in Slots |-> Idle]
    /\ last = [op |-> "init", status |-> 0]

----------------------------------------------------------------------------
(* Sessions *)

\* Mutant of CreateSession: a new session replaces the participant's others
CreateSessionSingle(participant_id) ==
    /\ session_seq < MaxSessions
    /\ session_seq' = session_seq + 1
    /\ sessions' = {s \in sessions : s.participant_id # participant_id} \cup
          {[id |-> session_seq + 1, participant_id |-> participant_id,
            expires_at |-> now + SESSION_DAYS]}

\* create_session: INSERT INTO sessions with a fresh uuid4 token
CreateSession(participant_id) ==
    /\ session_seq < MaxSessions
    /\ session_seq' = session_seq + 1
    /\ sessions' = sessions \cup
          {[id |-> session_seq + 1, participant_id |-> participant_id,
            expires_at |-> now + SESSION_DAYS]}

\* SELECT ... FROM sessions s JOIN participants p ON s.participant_id = p.id
\* WHERE s.id = cookie
SessionRows(cookie) ==
    {[participant_id |-> s.participant_id, expires_at |-> s.expires_at,
      name |-> p.name] :
        <<s, p>> \in {sp \in sessions \X participants :
                        sp[1].id = cookie /\ sp[1].participant_id = sp[2].id}}

\* Mutant of DeleteSession: the WHERE clause names the participant, not the row
DeleteSessionOfParticipant(rows, cookie) ==
    {s \in rows : \A t \in rows : t.id = cookie =>
                                    s.participant_id # t.participant_id}

\* DELETE FROM sessions WHERE id = cookie
DeleteSession(rows, cookie) == {s \in rows : s.id # cookie}

\* Mutant of VerifyPlayer: the expiry comparison is reversed
VerifyPlayerReversed(cookie) ==
    IF cookie = NoCookie
    THEN [status |-> 401, detail |-> "unauthorized"]
    ELSE IF SessionRows(cookie) = {}
    THEN [status |-> 401, detail |-> "invalid_session"]
    ELSE LET row == CHOOSE r \in SessionRows(cookie) : TRUE IN
         IF row.expires_at > now
         THEN [status |-> 401, detail |-> "session_expired"]
         ELSE [status |-> 200, participant_id |-> row.participant_id,
               name |-> row.name]

\* verify_player: the outcome (401 with its reason, or the player)
VerifyPlayer(cookie) ==
    IF cookie = NoCookie
    THEN [status |-> 401, detail |-> "unauthorized"]
    ELSE IF SessionRows(cookie) = {}
    THEN [status |-> 401, detail |-> "invalid_session"]
    ELSE LET row == CHOOSE r \in SessionRows(cookie) : TRUE IN
         IF row.expires_at < now
         THEN [status |-> 401, detail |-> "session_expired"]
         ELSE [status |-> 200, participant_id |-> row.participant_id,
               name |-> row.name]

\* verify_player: the sessions table after the call
SessionsAfterVerify(cookie) ==
    IF VerifyPlayer(cookie).status = 401
       /\ VerifyPlayer(cookie).detail = "session_expired"
    THEN DeleteSession(sessions, cookie)
    ELSE sessions

\* the clock
Tick ==
    /\ now + TickStep <= MaxTime
    /\ now' = now + TickStep
    /\ last' = [op |-> "tick", status |-> 0]
    /\ UNCHANGED <<store, inflight>>

----------------------------------------------------------------------------
(* POST /api/register *)

PhoneRows(phone) == {p \in participants : p.phone = phone}

\* Mutant of RegisterCheck: the lookup uses the phone as sent, untrimmed
RegisterCheckUntrimmed(phone) ==
    IF phone = <<>> \/ Strip(phone) = <<>> THEN "phone_required"
    ELSE IF PhoneRows(phone) # {} THEN "phone_taken"
    ELSE "ok"

\* register: the checks made before the INSERT
RegisterCheck(phone) ==
    IF phone = <<>> \/ Strip(phone) = <<>> THEN "phone_required"
    ELSE IF PhoneRows(Strip(phone)) # {} THEN "phone_taken"
    ELSE "ok"

\* register, up to and including SELECT id FROM participants WHERE phone = ...
RegisterBegin(slot, name, phone, password, salt) ==
    /\ inflight[slot] = Idle
    /\ IF RegisterCheck(phone) # "ok"
       THEN /\ last' = [op |-> "register", step |-> "select", status |-> 400,
                        detail |-> RegisterCheck(phone), phone |-> phone]
            /\ UNCHANGED inflight
       ELSE /\ inflight' = [inflight EXCEPT ![slot] =
                   [pc |-> "register_insert", name |-> name,
                    phone |-> Strip(phone),
                    password_hash |-> HashPw(password, salt)]]
            /\ last' = [op |-> "register", step |-> "select", status |-> 0,
                        detail |-> "ok", phone |-> phone]
    /\ UNCHANGED <<store, now>>

\* Mutant of RegisterInsert: participants.phone is not declared UNIQUE
RegisterInsertNoUnique(slot) ==
    LET r == inflight[slot] IN
    /\ r.pc = "register_insert"
    /\ participants_id_seq < MaxParticipantId
    /\ participants_id_seq' = participants_id_seq + 1
    /\ participants' = participants \cup
          {[id |-> participants_id_seq + 1, name |-> Strip(r.name),
            phone |-> r.phone, password_hash |-> r.password_hash]}
    /\ inflight' = [inflight EXCEPT ![slot] =
          [pc |-> "register_session",
           participant_id |-> participants_id_seq + 1,
           name |-> Strip(r.name), phone |-> r.phone]]
    /\ last' = [op |-> "register", step |-> "insert", status |-> 0,
                detail |-> "ok", phone |-> r.phone]
    /\ UNCHANGED <<sessions, session_seq, questions, questions_id_seq, answers,
                   quiz_settings, push_subscriptions, push_id_seq, now>>

\* register: INSERT INTO participants ... RETURNING id; commit.  phone is
\* UNIQUE: a violation is raised as an exception and answered with 500.  The
\* sequence value is consumed either way.
RegisterInsert(slot) ==
    LET r == inflight[slot] IN
    /\ r.pc = "register_insert"
    /\ participants_id_seq < MaxParticipantId
    /\ participants_id_seq' = participants_id_seq + 1
    /\ IF PhoneRows(r.phone) # {}
       THEN /\ UNCHANGED participants
            /\ inflight' = [inflight EXCEPT ![slot] = Idle]
            /\ last' = [op |-> "register", step |-> "insert", status |-> 500,
                        detail |-> "unique_violation", phone |-> r.phone]
       ELSE /\ participants' = participants \cup
                   {[id |-> participants_id_seq + 1, name |-> Strip(r.name),
                     phone |-> r.phone, password_hash |-> r.password_hash]}
            /\ inflight' = [inflight EXCEPT ![slot] =
                   [pc |-> "register_session",
                    participant_id |-> participants_id_seq + 1,
                    name |-> Strip(r.name), phone |-> r.phone]]
            /\ last' = [op |-> "register", step |-> "insert", status |-> 0,
                        detail |-> "ok", phone |-> r.phone]
    /\ UNCHANGED <<sessions, session_seq, questions, questions_id_seq, answers,
                   quiz_settings, push_subscriptions, push_id_seq, now>>

\* register: create_session and the response with its cookie
RegisterSession(slot) ==
    LET r == inflight[slot] IN
    /\ r.pc = "register_session"
    /\ CreateSession(r.participant_id)
    /\ inflight' = [inflight EXCEPT ![slot] = Idle]
    /\ last' = [op |-> "register", step |-> "session", status |-> 200,
                detail |-> "ok", phone |-> r.phone,
                participant_id |-> r.participant_id, name |-> r.name,
                session_id |-> session_seq + 1]
    /\ UNCHANGED <<participants, participants_id_seq, questions,
                   questions_id_seq, answers, quiz_settings,
                   push_subscriptions, push_id_seq, now>>

----------------------------------------------------------------------------
(* POST /api/login, GET /api/me, POST /api/logout *)

Login(phone, password) ==
    /\ IF phone = <<>> \/ Strip(phone) = <<>>
       THEN /\ last' = [op |-> "login", status |-> 400, phone |-> phone,
                        password |-> password]
            /\ UNCHANGED <<sessions, session_seq>>
       ELSE IF PhoneRows(Strip(phone)) = {}
       THEN /\ last' = [op |-> "login", status |-> 404, phone |-> phone,
                        password |-> password]
            /\ UNCHANGED <<sessions, session_seq>>
       ELSE LET row == CHOOSE p \in PhoneRows(Strip(phone)) : TRUE IN
            IF ~CheckPw(password, row.password_hash)
            THEN /\ last' = [op |-> "login", status |-> 401, phone |-> phone,
                             password |-> password]
                 /\ UNCHANGED <<sessions, session_seq>>
            ELSE /\ CreateSession(row.id)
                 /\ last' = [op |-> "login", status |-> 200, phone |-> phone,
                             password |-> password,
                             participant_id |-> row.id, name |-> row.name,
                             session_id |-> session_seq + 1]
    /\ UNCHANGED <<participants, participants_id_seq, questions,
                   questions_id_seq, answers, quiz_settings,
                   push_subscriptions, push_id_seq, now, inflight>>

GetMe(cookie) ==
    /\ sessions' = SessionsAfterVerify(cookie)
    /\ last' = [op |-> "me", cookie |-> cookie, at |-> now] @@ VerifyPlayer(cookie)
    /\ UNCHANGED <<participants, participants_id_seq, session_seq, questions,
                   questions_id_seq, answers, quiz_settings,
                   push_subscriptions, push_id_seq, now, inflight>>

Logout(cookie) ==
    /\ sessions' = IF cookie # NoCookie
                   THEN DeleteSession(sessions, cookie)
                   ELSE sessions
    /\ last' = [op |-> "logout", status |-> 200, cookie |-> cookie,
                participant_id |->
                    IF \E s \in sessions : s.id = cookie
                    THEN (CHOOSE s \in sessions : s.id = cookie).participant_id
                    ELSE 0]
    /\ UNCHANGED <<participants, participants_id_seq, session_seq, questions,
                   questions_id_seq, answers, quiz_settings,
                   push_subscriptions, push_id_seq, now, inflight>>

----------------------------------------------------------------------------
(* The session lifecycle: registration, login, validation, logout, time *)

PhoneInputs == {<<>>, <<" ">>, <<"7">>, <<" ", "7">>, <<"7", "\t">>, <<"8">>}
PasswordInputs == {<<"p">>, <<"q">>}
NameInputs == {<<"n", " ">>}
Salts == {"s1"}
AuthSlots == {1}
CookieInputs == {NoCookie} \cup Tokens

NextAuth ==
    \/ \E slot \in AuthSlots, name \in NameInputs, phone \in PhoneInputs,
          password \in PasswordInputs, salt \in Salts :
            RegisterBegin(slot, name, phone, password, salt)
    \/ \E slot \in AuthSlots : RegisterInsert(slot)
    \/ \E slot \in AuthSlots : RegisterSession(slot)
    \/ \E phone \in PhoneInputs, password \in PasswordInputs :
            Login(phone, password)
    \/ \E cookie \in CookieInputs : GetMe(cookie)
    \/ \E cookie \in CookieInputs : Logout(cookie)
    \/ Tick

SpecAuth == Init /\ [][NextAuth]_vars

----------------------------------------------------------------------------
(* Admin content manager: /api/admin/questions *)

\* Mutant of VerifyAdmin: a request without the header is let through
VerifyAdminIfSent(token) ==
    IF token # "" /\ token # ADMIN_SECRET THEN 403 ELSE 200

\* verify_admin: the X-Admin-Token header ("" when absent) against the secret
VerifyAdmin(token) == IF token # ADMIN_SECRET THEN 403 ELSE 200

\* json.dumps / json.loads of the option list kept in questions.options
JsonDumps(v) == [json |-> v]
JsonLoads(t) == t.json

TRUE_FALSE_OPTIONS == <<<<"s", "a", "h">>, <<"k", "h", "a", "t", "a">>>>

\* Mutant of ValidateQuestion: the upper limit on options is not enforced and
\* true_false keeps the options sent
ValidateQuestionLax(data) ==
    CASE data.question_type = "multiple_choice" ->
            IF Len(data.options) < 2
            THEN [status |-> 400, options |-> data.options]
            ELSE [status |-> 200, options |-> data.options]
      [] data.question_type = "true_false" ->
            [status |-> 200, options |-> data.options]
      [] data.question_type = "fill_blank" ->
            [status |-> 200, options |-> <<>>]
      [] OTHER -> [status |-> 400, options |-> data.options]

\* add_question / update_question: validation by question type, and the
\* option list that will be stored
ValidateQuestion(data) ==
    CASE data.question_type = "multiple_choice" ->
            IF Len(data.options) < 2
            THEN [status |-> 400, options |-> data.options]
            ELSE IF Len(data.options) > 6
            THEN [status |-> 400, options |-> data.options]
            ELSE [status |-> 200, options |-> data.options]
      [] data.question_type = "true_false" ->
            [status |-> 200, options |-> TRUE_FALSE_OPTIONS]
      [] data.question_type = "fill_blank" ->
            [status |-> 200, options |-> <<>>]
      [] OTHER -> [status |-> 400, options |-> data.options]

QuestionRow(id, data, options) ==
    [id |-> id, day |-> data.day, question_type |-> data.question_type,
     question_text |-> data.question_text, options |-> JsonDumps(options),
     correct_answer |-> data.correct_answer, category |-> data.category,
     order_num |-> data.order_num]

AddQuestion(token, data) ==
    /\ IF VerifyAdmin(token) # 200
       THEN /\ last' = [op |-> "add_question", status |-> 403, token |-> token]
            /\ UNCHANGED <<questions, questions_id_seq>>
       ELSE IF ValidateQuestion(data).status # 200
       THEN /\ last' = [op |-> "add_question", status |-> 400, token |-> token,
                        data |-> data]
            /\ UNCHANGED <<questions, questions_id_seq>>
       ELSE /\ questions_id_seq < MaxQuestionId
            /\ questions_id_seq' = questions_id_seq + 1
            /\ questions' = questions \cup
                  {QuestionRow(questions_id_seq + 1, data,
                               ValidateQuestion(data).options)}
            /\ last' = [op |-> "add_question", status |-> 200, token |-> token,
                        data |-> data, id |-> questions_id_seq + 1]
    /\ UNCHANGED <<participants, participants_id_seq, sessions, session_seq,
                   answers, quiz_settings, push_subscriptions, push_id_seq,
                   now, inflight>>

UpdateQuestion(token, question_id, data) ==
    /\ IF VerifyAdmin(token) # 200
       THEN /\ last' = [op |-> "update_question", status |-> 403,
                        token |-> token]
            /\ UNCHANGED questions
       ELSE IF ValidateQuestion(data).status # 200
       THEN /\ last' = [op |-> "update_question", status |-> 400,
                        token |-> token, data |-> data, id |-> question_id]
            /\ UNCHANGED questions
       ELSE /\ questions' =
                  {IF q.id = question_id
                   THEN QuestionRow(q.id, data, ValidateQuestion(data).options)
                   ELSE q : q \in questions}
            /\ last' = [op |-> "update_question", status |-> 200,
                        token |-> token, data |-> data, id |-> question_id]
    /\ UNCHANGED <<participants, participants_id_seq, sessions, session_seq,
                   questions_id_seq, answers, quiz_settings,
                   push_subscriptions, push_id_seq, now, inflight>>

DeleteQuestion(token, question_id) ==
    /\ IF VerifyAdmin(token) # 200
       THEN /\ last' = [op |-> "delete_question", status |-> 403,
                        token |-> token]
            /\ UNCHANGED questions
       ELSE /\ questions' = {q \in questions : q.id # question_id}
            /\ last' = [op |-> "delete_question", status |-> 200,
                        token |-> token, id |-> question_id]
    /\ UNCHANGED <<participants, participants_id_seq, sessions, session_seq,
                   questions_id_seq, answers, quiz_settings,
                   push_subscriptions, push_id_seq, now, inflight>>

\* GET /api/admin/questions/{day}
AdminGetQuestions(token, day) ==
    /\ last' = IF VerifyAdmin(token) # 200
               THEN [op |-> "admin_get_questions", status |-> 403,
                     token |-> token]
               ELSE [op |-> "admin_get_questions", status |-> 200,
                     token |-> token,
                     body |-> {[q EXCEPT !.options = JsonLoads(q.options)] :
                                 q \in {x \in questions : x.day = day}}]
    /\ UNCHANGED <<store, now, inflight>>

----------------------------------------------------------------------------
(* Settings: PUT /api/admin/settings *)

\* an Optional field of a request body: None, or a value
None == [given |-> FALSE]
Some(v) == [given |-> TRUE, value |-> v]

Digits == <<"0", "1", "2", "3", "4", "5", "6", "7", "8", "9">>

RECURSIVE NatStr(_)
NatStr(n) ==
    IF n < 10 THEN <<Digits[n + 1]>>
    ELSE NatStr(n \div 10) \o <<Digits[(n % 10) + 1]>>

\* str(int)
IntStr(n) == IF n < 0 THEN <<"-">> \o NatStr(0 - n) ELSE NatStr(n)

\* Mutant of Truthy: a supplied field counts whatever its value
TruthyIfGiven(field) == field.given

\* `if data.quiz_open_time:` -- None and the empty string are both false
Truthy(field) == field.given /\ field.value # <<>>

\* INSERT ... ON CONFLICT (key) DO UPDATE SET value = EXCLUDED.value
Upsert(settings, key, value) == [settings EXCEPT ![key] = value]

SettingsAfter(data) ==
    LET s1 == IF Truthy(data.quiz_open_time)
              THEN Upsert(quiz_settings, "quiz_open_time",
                          data.quiz_open_time.value)
              ELSE quiz_settings
        s2 == IF Truthy(data.quiz_close_time)
              THEN Upsert(s1, "quiz_close_time", data.quiz_close_time.value)
              ELSE s1
    IN IF data.current_day.given
       THEN Upsert(s2, "current_day", IntStr(data.current_day.value))
       ELSE s2

UpdateSettings(token, data) ==
    /\ IF VerifyAdmin(token) # 200
       THEN /\ last' = [op |-> "update_settings", status |-> 403,
                        token |-> token]
            /\ UNCHANGED quiz_settings
       ELSE /\ quiz_settings' = SettingsAfter(data)
            /\ last' = [op |-> "update_settings", status |-> 200,
                        token |-> token, data |-> data]
    /\ UNCHANGED <<participants, participants_id_seq, sessions, session_seq,
                   questions, questions_id_seq, answers, push_subscriptions,
                   push_id_seq, now, inflight>>

----------------------------------------------------------------------------
(* Notification dispatcher *)

\* POST /api/push/subscribe: INSERT ... ON CONFLICT (participant_id,
\* subscription_json) DO NOTHING; the sequence value is consumed either way
PushSubscribe(cookie, subscription) ==
    LET player == VerifyPlayer(cookie) IN
    /\ sessions' = SessionsAfterVerify(cookie)
    /\ IF player.status # 200
       THEN /\ last' = [op |-> "push_subscribe", status |-> 401]
            /\ UNCHANGED <<push_subscriptions, push_id_seq>>
       ELSE /\ push_id_seq < MaxPushId
            /\ push_id_seq' = push_id_seq + 1
            /\ push_subscriptions' =
                  IF \E r \in push_subscriptions :
                        /\ r.participant_id = player.participant_id
                        /\ r.subscription_json = JsonDumps(subscription)
                  THEN push_subscriptions
                  ELSE push_subscriptions \cup
                          {[id |-> push_id_seq + 1,
                            participant_id |-> player.participant_id,
                            subscription_json |-> JsonDumps(subscription)]}
            /\ last' = [op |-> "push_subscribe", status |-> 200]
    /\ UNCHANGED <<participants, participants_id_seq, session_seq, questions,
                   questions_id_seq, answers, quiz_settings, now, inflight>>

\* what webpush() does for one subscription: it returns, raises
\* WebPushException (with a 404/410 response or another one), or raises
\* something else
DeliveryOutcomes == {"sent", "gone", "webpush_error", "other_error"}

\* POST /api/admin/push/send.  An exception that is not a WebPushException is
\* not caught: the request ends with 500 and nothing is committed.
AdminSendPush(token, outcome) ==
    LET ids == {r.id : r \in push_subscriptions}
        failed_ids == {i \in ids : outcome[i] \in {"gone", "webpush_error"}}
        sent == Cardinality({i \in ids : outcome[i] = "sent"})
    IN
    /\ IF VerifyAdmin(token) # 200
       THEN /\ last' = [op |-> "send_push", status |-> 403, token |-> token]
            /\ UNCHANGED push_subscriptions
       ELSE IF \E i \in ids : outcome[i] = "other_error"
       THEN /\ last' = [op |-> "send_push", status |-> 500, token |-> token,
                        outcome |-> outcome]
            /\ UNCHANGED push_subscriptions
       ELSE /\ push_subscriptions' =
                  {r \in push_subscriptions : r.id \notin failed_ids}
            /\ last' = [op |-> "send_push", status |-> 200, token |-> token,
                        outcome |-> outcome,
                        body |-> [sent |-> sent,
                                  removed |-> Cardinality(failed_ids)]]
    /\ UNCHANGED <<participants, participants_id_seq, sessions, session_seq,
                   questions, questions_id_seq, answers, quiz_settings,
                   push_id_seq, now, inflight>>

----------------------------------------------------------------------------
(* Scoring engine: POST /api/answer *)

\* Mutant of IsCorrect: every question type is compared trimmed and lowered
IsCorrectNormalised(question_type, selected_answer, correct) ==
    IF Lower(Strip(selected_answer)) = Lower(Strip(correct)) THEN 1 ELSE 0

\* submit_answer: the correctness flag
IsCorrect(question_type, selected_answer, correct) ==
    IF question_type = "fill_blank"
    THEN IF Lower(Strip(selected_answer)) = Lower(Strip(correct)) THEN 1 ELSE 0
    ELSE IF selected_answer = correct THEN 1 ELSE 0

\* max(a, b)
Max(a, b) == IF a >= b THEN a ELSE b

\* Mutant of Points: the floor is applied to wrong answers too
PointsFloorAlways(is_correct, time_taken) ==
    IF is_correct # 0 THEN Max(10, 100 - time_taken * 3) ELSE 10

\* submit_answer: max(10, 100 - data.time_taken * 3) if is_correct else 0
Points(is_correct, time_taken) ==
    IF is_correct # 0 THEN Max(10, 100 - time_taken * 3) ELSE 0

\* Mutant of InsertAnswer: ON CONFLICT ... DO UPDATE, the later answer wins
InsertAnswerOverwrite(rows, row) ==
    {a \in rows : ~(a.participant_id = row.participant_id
                    /\ a.question_id = row.question_id)} \cup {row}

\* INSERT INTO answers ... ON CONFLICT (participant_id, question_id) DO NOTHING
InsertAnswer(rows, row) ==
    IF \E a \in rows : /\ a.participant_id = row.participant_id
                       /\ a.question_id = row.question_id
    THEN rows
    ELSE rows \cup {row}

\* submit_answer, up to the INSERT: verify_player, the SELECT of the question,
\* correctness and points
SubmitBegin(slot, cookie, question_id, selected_answer, time_taken) ==
    LET player == VerifyPlayer(cookie)
        found == {q \in questions : q.id = question_id}
    IN
    /\ inflight[slot] = Idle
    /\ sessions' = SessionsAfterVerify(cookie)
    /\ IF player.status # 200
       THEN /\ last' = [op |-> "answer", step |-> "verify", status |-> 401,
                        slot |-> slot]
            /\ UNCHANGED inflight
       ELSE IF found = {}
       THEN /\ last' = [op |-> "answer", step |-> "select", status |-> 404,
                        slot |-> slot]
            /\ UNCHANGED inflight
       ELSE LET q == CHOOSE x \in found : TRUE
                is_correct == IsCorrect(q.question_type, selected_answer,
                                        q.correct_answer)
            IN
            /\ inflight' = [inflight EXCEPT ![slot] =
                  [pc |-> "answer_insert",
                   row |-> [participant_id |-> player.participant_id,
                            question_id |-> question_id,
                            selected_answer |-> selected_answer,
                            is_correct |-> is_correct,
                            time_taken |-> time_taken,
                            points |-> Points(is_correct, time_taken)]]]
            /\ last' = [op |-> "answer", step |-> "select", status |-> 0,
                        slot |-> slot]
    /\ UNCHANGED <<participants, participants_id_seq, session_seq, questions,
                   questions_id_seq, answers, quiz_settings,
                   push_subscriptions, push_id_seq, now>>

\* submit_answer: the INSERT, the commit and {"status": "ok"}
SubmitInsert(slot) ==
    LET r == inflight[slot] IN
    /\ r.pc = "answer_insert"
    /\ answers' = InsertAnswer(answers, r.row)
    /\ inflight' = [inflight EXCEPT ![slot] = Idle]
    /\ last' = [op |-> "answer", step |-> "insert", status |-> 200,
                slot |-> slot, row |-> r.row]
    /\ UNCHANGED <<participants, participants_id_seq, sessions, session_seq,
                   questions, questions_id_seq, quiz_settings,
                   push_subscriptions, push_id_seq, now>>

----------------------------------------------------------------------------
(* Aggregation: GET /api/leaderboard *)

AnswersOf(participant_id) ==
    {a \in answers : a.participant_id = participant_id}

\* SUM(a.points) over a set of answer rows
RECURSIVE SumPoints(_)
SumPoints(rows) ==
    IF rows = {} THEN 0
    ELSE LET a == CHOOSE x \in rows : TRUE
         IN a.points + SumPoints(rows \ {a})

\* one group of GROUP BY p.id: COALESCE(SUM(a.points), 0) and COUNT(a.id)
Group(p) ==
    [id |-> p.id, points |-> SumPoints(AnswersOf(p.id)),
     total_answered |-> Cardinality(AnswersOf(p.id))]

\* Mutant of LeaderboardGroups: no HAVING clause, as in the admin leaderboard
LeaderboardGroupsAll == {Group(p) : p \in participants}

\* FROM participants p LEFT JOIN answers a ... GROUP BY p.id
\* HAVING COUNT(a.id) > 0
LeaderboardGroups ==
    {g \in {Group(p) : p \in participants} : g.total_answered > 0}

\* ORDER BY points DESC, total_answered DESC: g comes before h
Before(g, h) ==
    \/ g.points > h.points
    \/ g.points = h.points /\ g.total_answered > h.total_answered

\* the groups in ORDER BY order; groups equal in both keys come in an order
\* the query leaves open, and give equal entries
RECURSIVE Ordered(_)
Ordered(groups) ==
    IF groups = {} THEN <<>>
    ELSE LET g == CHOOSE x \in groups : \A y \in groups : ~Before(y, x)
         IN <<g>> \o Ordered(groups \ {g})

\* LIMIT n
Limit(rows, n) == SubSeq(rows, 1, IF Len(rows) < n THEN Len(rows) ELSE n)

\* public_leaderboard: the response
LeaderboardBody ==
    LET rows == Limit(Ordered(LeaderboardGroups), LEADERBOARD_LIMIT)
    IN [i \in 1..Len(rows) |->
          [rank |-> i, points |-> rows[i].points,
           total_answered |-> rows[i].total_answered]]

PublicLeaderboard ==
    /\ last' = [op |-> "leaderboard", status |-> 200, body |-> LeaderboardBody]
    /\ UNCHANGED <<store, now, inflight>>

----------------------------------------------------------------------------
(* Admin views: leaderboard, stats, participants, export *)

\* GET /api/admin/leaderboard: every participant, answers or not, by id
\* (name, phone and days_won are left out of the rows)
GetLeaderboard(token) ==
    /\ last' = IF VerifyAdmin(token) # 200
               THEN [op |-> "admin_leaderboard", status |-> 403,
                     token |-> token]
               ELSE [op |-> "admin_leaderboard", status |-> 200,
                     token |-> token,
                     body |-> Ordered({Group(p) : p \in participants})]
    /\ UNCHANGED <<store, now, inflight>>

\* GET /api/admin/stats: the counts (the per-day count is not modelled)
GetStats(token) ==
    /\ last' = IF VerifyAdmin(token) # 200
               THEN [op |-> "admin_stats", status |-> 403, token |-> token]
               ELSE [op |-> "admin_stats", status |-> 200, token |-> token,
                     body |->
                       [total_participants |-> Cardinality(participants),
                        total_answers |-> Cardinality(answers),
                        correct_answers |->
                           Cardinality({a \in answers : a.is_correct = 1})]]
    /\ UNCHANGED <<store, now, inflight>>

\* GET /api/admin/participants
GetParticipants(token) ==
    /\ last' = IF VerifyAdmin(token) # 200
               THEN [op |-> "admin_participants", status |-> 403,
                     token |-> token]
               ELSE [op |-> "admin_participants", status |-> 200,
                     token |-> token, body |-> participants]
    /\ UNCHANGED <<store, now, inflight>>

\* GET /api/admin/export: answers joined with participants and questions
ExportData(token) ==
    /\ last' = IF VerifyAdmin(token) # 200
               THEN [op |-> "admin_export", status |-> 403, token |-> token]
               ELSE [op |-> "admin_export", status |-> 200, token |-> token,
                     body |->
                       {[name |-> t[2].name, phone |-> t[2].phone,
                         day |-> t[3].day,
                         selected_answer |-> t[1].selected_answer,
                         correct_answer |-> t[3].correct_answer,
                         is_correct |-> t[1].is_correct,
                         time_taken |-> t[1].time_taken] :
                          t \in {x \in answers \X participants \X questions :
                                   /\ x[1].participant_id = x[2].id
                                   /\ x[1].question_id = x[3].id}}]
    /\ UNCHANGED <<store, now, inflight>>

----------------------------------------------------------------------------
(* Concurrent submissions: two players, requests racing for the same pair *)

QuestionData(question_type, options, correct_answer) ==
    [day |-> 1, question_type |-> question_type, question_text |-> <<"q">>,
     options |-> options, correct_answer |-> correct_answer,
     category |-> <<"g">>, order_num |-> 1]

\* an option list of k entries
Options(k) == [i \in 1..k |-> <<"o">>]

QuestionIds == 1..MaxQuestionId

PlayerPhones == {<<"7">>, <<"8">>}
RaceSlots == {1, 2}
RaceQuestions == {QuestionData("multiple_choice", Options(2), <<"a">>)}
RaceAnswers == {<<"a">>, <<"b">>}
RaceTimes == {0}

NextAnswers ==
    \/ \E slot \in AuthSlots, phone \in PlayerPhones :
            RegisterBegin(slot, <<"n">>, phone, <<"p">>, "s1")
    \/ \E slot \in AuthSlots : RegisterInsert(slot)
    \/ \E slot \in AuthSlots : RegisterSession(slot)
    \/ \E data \in RaceQuestions : AddQuestion(ADMIN_SECRET, data)
    \/ \E slot \in RaceSlots, cookie \in Tokens, question_id \in QuestionIds,
          selected_answer \in RaceAnswers, time_taken \in RaceTimes :
            SubmitBegin(slot, cookie, question_id, selected_answer, time_taken)
    \/ \E slot \in RaceSlots : SubmitInsert(slot)

SpecAnswers == Init /\ [][NextAnswers]_vars

----------------------------------------------------------------------------
(* Scoring: one player, the three question types, answers and times *)

ScoreQuestions ==
    {QuestionData("multiple_choice", Options(2), <<"a">>),
     QuestionData("true_false", <<>>, <<"A">>),
     QuestionData("fill_blank", <<>>, <<" ", "A">>)}

\* <<selected_answer, time_taken>> of the submissions
ScoreSubmissions ==
    {<<<<"a">>, 0>>, <<<<"a">>, 10>>, <<<<"a">>, 30>>, <<<<"a">>, 100>>,
     <<<<"a">>, -1>>, <<<<"A">>, 0>>, <<<<"A">>, 30>>,
     <<<<"a", " ">>, 0>>, <<<<"a", " ">>, 100>>,
     <<<<"b">>, 0>>, <<<<"b">>, 100>>}

NextScore ==
    \/ \E slot \in AuthSlots :
            RegisterBegin(slot, <<"n">>, <<"7">>, <<"p">>, "s1")
    \/ \E slot \in AuthSlots : RegisterInsert(slot)
    \/ \E slot \in AuthSlots : RegisterSession(slot)
    \/ \E data \in ScoreQuestions : AddQuestion(ADMIN_SECRET, data)
    \/ \E slot \in AuthSlots, cookie \in Tokens, question_id \in QuestionIds,
          sub \in ScoreSubmissions :
            SubmitBegin(slot, cookie, question_id, sub[1], sub[2])
    \/ \E slot \in AuthSlots : SubmitInsert(slot)

SpecScore == Init /\ [][NextScore]_vars

----------------------------------------------------------------------------
(* Leaderboard: more players than the leaderboard lists *)

NumPlayers == 11        \* players registered in the larger initial state

BoardQuestion == QuestionData("multiple_choice", Options(2), <<"a">>)

Player(id) ==
    [id |-> id, name |-> <<"n">>, phone |-> <<"7">> \o NatStr(id),
     password_hash |-> HashPw(<<"p">>, "s1")]

\* the row submit_answer stores for a submission to BoardQuestion
AnswerRow(participant_id, question_id, selected_answer, time_taken) ==
    LET is_correct == IsCorrect(BoardQuestion.question_type, selected_answer,
                                BoardQuestion.correct_answer)
    IN [participant_id |-> participant_id, question_id |-> question_id,
        selected_answer |-> selected_answer, is_correct |-> is_correct,
        time_taken |-> time_taken, points |-> Points(is_correct, time_taken)]

\* Players 3, 4, ... have answered question 1 correctly, each slower than the
\* one before, and question 2 wrongly when their id is odd; players 1 and 2
\* have not answered yet.
SeededAnswers(n) ==
    {AnswerRow(id, 1, <<"a">>, (id - 3) * 5) : id \in 3..n}
    \cup {AnswerRow(id, 2, <<"b">>, 0) : id \in {i \in 3..n : i % 2 = 1}}

\* States reached from Init by n registrations (n = 2 or n = NumPlayers), two
\* add_question calls and the submissions of SeededAnswers(n), with every
\* request finished.
InitBoard ==
    /\ \E n \in {2, NumPlayers} :
          /\ participants = {Player(id) : id \in 1..n}
          /\ participants_id_seq = n
          /\ sessions = {[id |-> id, participant_id |-> id,
                          expires_at |-> SESSION_DAYS] : id \in 1..n}
          /\ session_seq = n
          /\ answers = SeededAnswers(n)
    /\ questions = {QuestionRow(id, BoardQuestion, BoardQuestion.options) :
                      id \in 1..2}
    /\ questions_id_seq = 2
    /\ quiz_settings = DefaultSettings
    /\ push_subscriptions = {}
    /\ push_id_seq = 0
    /\ now = 0
    /\ inflight = [s \in Slots |-> Idle]
    /\ last = [op |-> "init", status |-> 0]

BoardTimes == {0, 30}

NextBoard ==
    \/ \E slot \in AuthSlots, cookie \in 1..2, question_id \in 1..2,
          selected_answer \in RaceAnswers, time_taken \in BoardTimes :
            SubmitBegin(slot, cookie, question_id, selected_answer, time_taken)
    \/ \E slot \in AuthSlots : SubmitInsert(slot)
    \/ PublicLeaderboard

SpecBoard == InitBoard /\ [][NextBoard]_vars

----------------------------------------------------------------------------
(* Admin endpoints with and without the secret *)

AdminTokens == {"", "wrong", ADMIN_SECRET}

AdminQuestions ==
    {QuestionData("multiple_choice", Options(2), <<"a">>),
     QuestionData("essay", Options(2), <<"a">>)}

AdminSettings ==
    {[quiz_open_time |-> Some(<<"2", "0", ":", "0", "0">>),
      quiz_close_time |-> None, current_day |-> Some(2)]}

Subscriptions == {"endpoint1", "endpoint2"}

NextAdmin ==
    \/ \E slot \in AuthSlots :
            RegisterBegin(slot, <<"n">>, <<"7">>, <<"p">>, "s1")
    \/ \E slot \in AuthSlots : RegisterInsert(slot)
    \/ \E slot \in AuthSlots : RegisterSession(slot)
    \/ \E cookie \in Tokens, subscription \in Subscriptions :
            PushSubscribe(cookie, subscription)
    \/ \E token \in AdminTokens, data \in AdminQuestions :
            AddQuestion(token, data)
    \/ \E token \in AdminTokens, question_id \in QuestionIds,
          data \in AdminQuestions : UpdateQuestion(token, question_id, data)
    \/ \E token \in AdminTokens, question_id \in QuestionIds :
            DeleteQuestion(token, question_id)
    \/ \E token \in AdminTokens : AdminGetQuestions(token, 1)
    \/ \E token \in AdminTokens, data \in AdminSettings :
            UpdateSettings(token, data)
    \/ \E token \in AdminTokens,
          outcome \in [1..MaxPushId -> {"sent", "gone"}] :
            AdminSendPush(token, outcome)
    \/ \E token \in AdminTokens : GetLeaderboard(token)
    \/ \E token \in AdminTokens : GetStats(token)
    \/ \E token \in AdminTokens : GetParticipants(token)
    \/ \E token \in AdminTokens : ExportData(token)

SpecAdmin == Init /\ [][NextAdmin]_vars

----------------------------------------------------------------------------
(* Question management: every type and option count *)

QuestionTypes == {"multiple_choice", "true_false", "fill_blank", "essay"}
OptionCounts == {0, 1, 2, 6, MaxOptions}

ManagedQuestions ==
    {QuestionData(question_type, Options(k), <<"a">>) :
        question_type \in QuestionTypes, k \in OptionCounts}

NextQuestions ==
    \/ \E data \in ManagedQuestions : AddQuestion(ADMIN_SECRET, data)
    \/ \E question_id \in QuestionIds, data \in ManagedQuestions :
            UpdateQuestion(ADMIN_SECRET, question_id, data)
    \/ \E question_id \in QuestionIds : DeleteQuestion(ADMIN_SECRET, question_id)

SpecQuestions == Init /\ [][NextQuestions]_vars

----------------------------------------------------------------------------
(* Settings updates with every combination of supplied and omitted fields *)

OpenTimeInputs == {None, Some(<<>>), Some(<<"2", "0", ":", "0", "0">>)}
CloseTimeInputs == {None, Some(<<>>), Some(<<"2", "3", ":", "0", "0">>)}
CurrentDayInputs == {None, Some(0), Some(2)}

SettingsInputs ==
    [quiz_open_time : OpenTimeInputs, quiz_close_time : CloseTimeInputs,
     current_day : CurrentDayInputs]

NextSettings ==
    \E token \in {"wrong", ADMIN_SECRET}, data \in SettingsInputs :
        UpdateSettings(token, data)

SpecSettings == Init /\ [][NextSettings]_vars

----------------------------------------------------------------------------
(* Push delivery with every way a delivery can end *)

NextPush ==
    \/ \E slot \in AuthSlots :
            RegisterBegin(slot, <<"n">>, <<"7">>, <<"p">>, "s1")
    \/ \E slot \in AuthSlots : RegisterInsert(slot)
    \/ \E slot \in AuthSlots : RegisterSession(slot)
    \/ \E cookie \in Tokens, subscription \in Subscriptions :
            PushSubscribe(cookie, subscription)
    \/ \E token \in {"wrong", ADMIN_SECRET},
          outcome \in [1..MaxPushId -> DeliveryOutcomes] :
            AdminSendPush(token, outcome)

SpecPush == Init /\ [][NextPush]_vars

----------------------------------------------------------------------------
(* Public questions listing: GET /api/questions/{day} *)

\* Mutant of SelectPublicColumns: SELECT * instead of the column list
SelectAllColumns(q) == [q EXCEPT !.options = JsonLoads(q.options)]

\* SELECT id, question_type, question_text, options, category, order_num,
\* with options decoded by json.loads
SelectPublicColumns(q) ==
    [id |-> q.id, question_type |-> q.question_type,
     question_text |-> q.question_text, options |-> JsonLoads(q.options),
     category |-> q.category, order_num |-> q.order_num]

\* ... FROM questions WHERE day = day ORDER BY order_num: every order of the
\* selected rows that ORDER BY allows (rows with equal order_num may come in
\* either order)
RowsInOrder(rows, day) ==
    LET sel == {q \in rows : q.day = day}
        n == Cardinality(sel)
    IN {s \in [1..n -> sel] :
          /\ \A i, j \in 1..n : i # j => s[i] # s[j]
          /\ \A i \in 1..n, j \in 1..n :
                i < j => s[i].order_num <= s[j].order_num}

\* the response bodies get_questions may return on a questions table
GetQuestionsBodies(rows, day) ==
    {[i \in 1..Len(s) |-> SelectPublicColumns(s[i])] : s \in RowsInOrder(rows, day)}

GetQuestions(day) ==
    /\ \E body \in GetQuestionsBodies(questions, day) :
          last' = [op |-> "get_questions", status |-> 200, day |-> day,
                   body |-> body]
    /\ UNCHANGED <<store, now, inflight>>

ListingDays == {1, 2}
ListingOrders == {1, 2}
ListingAnswers == {<<"a">>, <<"b">>}
ListingIds == {1, 2}

ListedQuestions ==
    {[QuestionData("multiple_choice", Options(2), correct_answer)
         EXCEPT !.day = day, !.order_num = order_num] :
        correct_answer \in ListingAnswers, day \in ListingDays,
        order_num \in ListingOrders}

\* The empty database, or the state reached from it by add_question for
\* each of two questions of day 1 with the same order_num.
InitListing ==
    \/ Init
    \/ /\ participants = {}
       /\ participants_id_seq = 0
       /\ sessions = {}
       /\ session_seq = 0
       /\ questions =
             {QuestionRow(id, QuestionData("multiple_choice", Options(2), <<"a">>),
                          Options(2)) : id \in ListingIds}
       /\ questions_id_seq = 2
       /\ answers = {}
       /\ quiz_settings = DefaultSettings
       /\ push_subscriptions = {}
       /\ push_id_seq = 0
       /\ now = 0
       /\ inflight = [s \in Slots |-> Idle]
       /\ last = [op |-> "init", status |-> 0]

NextListing ==
    \/ \E data \in ListedQuestions : AddQuestion(ADMIN_SECRET, data)
    \/ \E question_id \in ListingIds, data \in ListedQuestions :
            UpdateQuestion(ADMIN_SECRET, question_id, data)
    \/ \E question_id \in ListingIds : DeleteQuestion(ADMIN_SECRET, question_id)
    \/ \E day \in ListingDays : GetQuestions(day)

SpecListing == InitListing /\ [][NextListing]_vars

----------------------------------------------------------------------------
(* Concurrent registrations that carry the same phone *)

RacePhones == {<<"7">>, <<"7", " ">>, <<"8">>}
RacePasswords == {<<"p">>, <<"q">>}

NextRegisterRace ==
    \/ \E slot \in RaceSlots, phone \in RacePhones,
          password \in RacePasswords :
            RegisterBegin(slot, <<"n">>, phone, password, "s1")
    \/ \E slot \in RaceSlots : RegisterInsert(slot)
    \/ \E slot \in RaceSlots : RegisterSession(slot)

SpecRegisterRace == Init /\ [][NextRegisterRace]_vars

----------------------------------------------------------------------------
(* Properties of the scoring engine *)

SamePair(a, b) ==
    a.participant_id = b.participant_id /\ a.question_id = b.question_id

\* C1: the answers table never holds two rows for one (participant,
\* question) pair; a stored row is never changed or removed; the INSERT of a
\* submission whose pair is already stored answers {status: ok} and leaves
\* the table as it is, and otherwise adds exactly the submitted row.
FirstAnswerWins ==
    [][/\ \A a, b \in answers' : SamePair(a, b) => a = b
       /\ answers \subseteq answers'
       /\ (last'.op = "answer" /\ last'.step = "insert")
          => (/\ last'.status = 200
              /\ (\E a \in answers : SamePair(a, last'.row))
                 => answers' = answers
              /\ (\A a \in answers : ~SamePair(a, last'.row))
                 => answers' = answers \cup {last'.row})]_vars

\* C1 witness: a second submission for a stored pair, with another answer,
\* was answered ok and discarded
SecondAnswerDiscarded ==
    /\ last.op = "answer"
    /\ last.step = "insert"
    /\ last.status = 200
    /\ last.row \notin answers
    /\ \E a \in answers :
          /\ SamePair(a, last.row)
          /\ a.selected_answer # last.row.selected_answer

\* C6: every recorded answer has 0 points when incorrect and
\* max(10, 100 - 3 * time_taken) points when correct: 100 at 0 seconds, 10 at
\* 30 seconds, 10 at 100 seconds.
PointsFollowFormula ==
    \A a \in answers :
        /\ a.is_correct \in {0, 1}
        /\ a.is_correct = 0 => a.points = 0
        /\ a.is_correct = 1 =>
              /\ 100 - 3 * a.time_taken >= 10
                    => a.points = 100 - 3 * a.time_taken
              /\ 100 - 3 * a.time_taken < 10 => a.points = 10
              /\ a.time_taken = 0 => a.points = 100
              /\ a.time_taken = 30 => a.points = 10
              /\ a.time_taken = 100 => a.points = 10

\* C6 witness: a correct answer given after 100 seconds is recorded with the
\* floor of 10 points
FloorPointsRecorded ==
    /\ last.op = "answer"
    /\ last.step = "insert"
    /\ last.row \in answers
    /\ last.row.is_correct = 1
    /\ last.row.time_taken = 100
    /\ last.row.points = 10

\* C7: when a submission is scored, a fill_blank answer is marked correct
\* exactly when it equals the stored correct answer after trimming and
\* lowering both; an answer to any other type exactly when it is equal to the
\* stored correct answer as sent (a difference in case or surrounding
\* whitespace makes it incorrect).
CorrectnessByType ==
    [][(last'.op = "answer" /\ last'.step = "select" /\ last'.status = 0)
       => LET row == inflight'[last'.slot].row
              q == CHOOSE x \in questions : x.id = row.question_id
          IN /\ row.is_correct \in {0, 1}
             /\ q.question_type = "fill_blank"
                => (row.is_correct = 1
                    <=> Lower(Strip(row.selected_answer))
                        = Lower(Strip(q.correct_answer)))
             /\ q.question_type # "fill_blank"
                => (row.is_correct = 1
                    <=> row.selected_answer = q.correct_answer)
             /\ (/\ q.question_type = "fill_blank"
                 /\ q.correct_answer = <<" ", "A">>
                 /\ row.selected_answer \in {<<"a">>, <<"A">>, <<"a", " ">>})
                => row.is_correct = 1
             /\ (/\ q.question_type = "multiple_choice"
                 /\ q.correct_answer = <<"a">>
                 /\ row.selected_answer \in {<<"A">>, <<"a", " ">>})
                => row.is_correct = 0]_vars

\* C7 witness: a fill_blank answer that differs from the stored correct
\* answer in case and in surrounding whitespace is recorded as correct
CaseAndSpaceForgiven ==
    /\ last.op = "answer"
    /\ last.step = "insert"
    /\ last.row \in answers
    /\ \E q \in questions :
          /\ q.id = last.row.question_id
          /\ q.question_type = "fill_blank"
          /\ last.row.selected_answer # q.correct_answer
          /\ Strip(last.row.selected_answer) # Strip(q.correct_answer)
          /\ last.row.selected_answer # Strip(last.row.selected_answer)
          /\ last.row.is_correct = 1

\* the participants with at least one recorded answer
Answered == {p \in participants : \E a \in answers : a.participant_id = p.id}

\* the total points and the number of answers of a participant
TotalOf(p) ==
    [points |-> SumPoints({a \in answers : a.participant_id = p.id}),
     total_answered |->
        Cardinality({a \in answers : a.participant_id = p.id})]

\* how many entries of a leaderboard carry the totals t
Listed(body, t) ==
    Cardinality({i \in 1..Len(body) :
        body[i].points = t.points
        /\ body[i].total_answered = t.total_answered})

\* how many participants with answers have the totals t
Having(t) == Cardinality({p \in Answered : TotalOf(p) = t})

\* C8: the public leaderboard lists only participants with at least one
\* answer, each at most once, ordered by total points descending and then by
\* number of answers descending; it has min(10, number of such participants)
\* entries, the best ones; entry i has rank i, ties included; it is empty
\* when no answers are stored.
LeaderboardSortedAndCapped ==
    last.op = "leaderboard" =>
        LET body == last.body IN
        /\ Len(body) <= 10
        /\ Len(body) = IF Cardinality(Answered) < 10
                       THEN Cardinality(Answered) ELSE 10
        /\ answers = {} => body = <<>>
        /\ \A i \in 1..Len(body) : body[i].rank = i
        /\ \A i, j \in 1..Len(body) :
              i < j =>
                 \/ body[i].points > body[j].points
                 \/ /\ body[i].points = body[j].points
                    /\ body[i].total_answered >= body[j].total_answered
        /\ \A i \in 1..Len(body) :
              LET t == [points |-> body[i].points,
                        total_answered |-> body[i].total_answered]
              IN /\ t.total_answered > 0
                 /\ Listed(body, t) <= Having(t)
        /\ \A p \in Answered :
              LET t == TotalOf(p)
                  tail == body[Len(body)]
              IN (\/ t.points > tail.points
                  \/ /\ t.points = tail.points
                     /\ t.total_answered > tail.total_answered)
                 => Listed(body, t) = Having(t)

\* C8 witness: more than ten participants have answers, the leaderboard lists
\* ten, and two neighbours with equal points and equal counts have
\* consecutive ranks
LeaderboardFullWithTie ==
    /\ last.op = "leaderboard"
    /\ Cardinality(Answered) > 10
    /\ Len(last.body) = 10
    /\ \E i \in 1..9 :
          /\ last.body[i].points = last.body[i + 1].points
          /\ last.body[i].total_answered = last.body[i + 1].total_answered
          /\ last.body[i + 1].rank = last.body[i].rank + 1

----------------------------------------------------------------------------
(* Properties of the admin content manager *)

AdminOps ==
    {"add_question", "update_question", "delete_question",
     "admin_get_questions", "update_settings", "send_push",
     "admin_leaderboard", "admin_stats", "admin_participants", "admin_export"}

\* C9: an admin request whose X-Admin-Token is missing or is not the
\* configured secret is answered 403 and leaves every table, questions,
\* settings and push subscriptions included, unchanged.
AdminNeedsSecret ==
    [][(last'.op \in AdminOps /\ last'.token # "ramadan2026admin")
       => (last'.status = 403 /\ store' = store)]_vars

\* C9 witness: a send-push request without the header was refused while a
\* question and a subscription are stored
PushRefusedWithoutToken ==
    /\ last.op = "send_push"
    /\ last.token = ""
    /\ last.status = 403
    /\ push_subscriptions # {}
    /\ questions # {}

FixedTwoOptions == <<<<"s", "a", "h">>, <<"k", "h", "a", "t", "a">>>>

OptionsFitType(q) ==
    /\ q.question_type \in {"multiple_choice", "true_false", "fill_blank"}
    /\ q.question_type = "multiple_choice"
       => (Len(q.options.json) >= 2 /\ Len(q.options.json) <= 6)
    /\ q.question_type = "true_false" => q.options.json = FixedTwoOptions
    /\ q.question_type = "fill_blank" => q.options.json = <<>>

\* C10: every stored question has one of the three types and an option list
\* that fits it (2 to 6 for multiple_choice, the fixed pair for true_false
\* whatever was sent, none for fill_blank); an add or update request with an
\* unknown type, or with a multiple_choice option count outside 2..6, is
\* answered 400 and leaves the store unchanged.
QuestionsFitTheirType ==
    [][/\ \A q \in questions' : OptionsFitType(q)
       /\ (/\ last'.op \in {"add_question", "update_question"}
           /\ last'.token = "ramadan2026admin"
           /\ \/ last'.data.question_type
                    \notin {"multiple_choice", "true_false", "fill_blank"}
              \/ /\ last'.data.question_type = "multiple_choice"
                 /\ (Len(last'.data.options) < 2 \/ Len(last'.data.options) > 6))
          => (last'.status = 400 /\ store' = store)]_vars

\* C10 witness: a true_false question sent with other options is stored with
\* the fixed pair
TrueFalseOptionsForced ==
    /\ last.op \in {"add_question", "update_question"}
    /\ last.status = 200
    /\ last.data.question_type = "true_false"
    /\ last.data.options # FixedTwoOptions
    /\ \E q \in questions :
          /\ q.id = last.id
          /\ q.question_type = "true_false"
          /\ q.options.json = FixedTwoOptions

----------------------------------------------------------------------------
(* Properties of the session lifecycle *)

SessionIds(rows) == {s.id : s \in rows}

\* A token that was issued and is no longer stored is never stored again
DeletedTokensStayDeleted ==
    \A t \in 1..session_seq :
        t \notin SessionIds(sessions) => t \notin SessionIds(sessions')

\* C2: a Register request whose phone, trimmed, already belongs to a
\* participant, or whose phone is empty or blank, is answered 400 and leaves
\* the store unchanged: no participant row, no session row, and the request
\* does not go on to its INSERT.
RegisterRejectsTakenOrBlankPhone ==
    [][(/\ last'.op = "register"
        /\ last'.step = "select"
        /\ \/ Strip(last'.phone) = <<>>
           \/ \E p \in participants : p.phone = Strip(last'.phone))
       => (/\ last'.status = 400
           /\ store' = store
           /\ inflight' = inflight)]_vars

\* C2 witness: a phone sent with surrounding whitespace was refused as taken
RegisterTakenPhoneRefused ==
    /\ last.op = "register"
    /\ last.step = "select"
    /\ last.status = 400
    /\ last.detail = "phone_taken"
    /\ last.phone # Strip(last.phone)
    /\ \E p \in participants : p.phone = Strip(last.phone)

ValidateSessionRest ==
    /\ (last'.op = "me"
        /\ (last'.cookie = NoCookie \/ last'.cookie \notin SessionIds(sessions)))
       => (last'.status = 401 /\ store' = store)
    /\ (last'.op = "me"
        /\ \E s \in sessions : s.id = last'.cookie /\ s.expires_at < now)
       => (/\ last'.status = 401
           /\ sessions' = {s \in sessions : s.id # last'.cookie}
           /\ last'.cookie \notin SessionIds(sessions'))
    /\ DeletedTokensStayDeleted

\* C3 as stated: ValidateSession returns the bound participant only for a
\* stored session whose expiry is in the future (later than the time of the
\* check); an absent or unknown token gets 401 and changes nothing; an expired
\* session gets 401 and its row is deleted, never to be validated again.
ValidateSessionOnlyFutureExpiry ==
    [][/\ (last'.op = "me" /\ last'.status = 200)
          => \E s \in sessions :
                /\ s.id = last'.cookie
                /\ s.participant_id = last'.participant_id
                /\ s.expires_at > now
       /\ ValidateSessionRest]_vars

\* C3 amended: ValidateSession returns the bound participant only for a
\* stored session whose expiry is not earlier than the time of the check (a
\* session expiring at exactly that instant is still accepted); an absent or
\* unknown token gets 401 and changes nothing; a session whose expiry is
\* earlier than the check gets 401 and its row is deleted, and a deleted token
\* is never validated again.
ValidateSessionNotExpired ==
    [][/\ (last'.op = "me" /\ last'.status = 200)
          => \E s \in sessions :
                /\ s.id = last'.cookie
                /\ s.participant_id = last'.participant_id
                /\ s.expires_at >= now
                /\ sessions' = sessions
       /\ ValidateSessionRest]_vars

\* C3 witness: an expired session was refused and its row deleted
ExpiredSessionDeleted ==
    /\ last.op = "me"
    /\ last.status = 401
    /\ last.detail = "session_expired"
    /\ last.cookie \in 1..session_seq
    /\ last.cookie \notin SessionIds(sessions)

LoginRows(phone) == {p \in participants : p.phone = Strip(phone)}

LoginKeepsSessions == sessions' = sessions /\ session_seq' = session_seq

LoginKnownPhone ==
    /\ (/\ last'.op = "login"
        /\ LoginRows(last'.phone) # {}
        /\ \A p \in LoginRows(last'.phone) :
              p.password_hash.digest[2] # last'.password)
       => (last'.status = 401 /\ LoginKeepsSessions)
    /\ (/\ last'.op = "login"
        /\ \E p \in LoginRows(last'.phone) :
              p.password_hash.digest[2] = last'.password)
       => (/\ last'.status = 200
           /\ \E s \in sessions' \ sessions :
                 /\ sessions' = sessions \cup {s}
                 /\ s.id \notin SessionIds(sessions)
                 /\ s.id = last'.session_id
                 /\ s.participant_id = last'.participant_id
                 /\ s.participant_id \in {p.id : p \in LoginRows(last'.phone)}
                 /\ s.expires_at >= now)

\* C4 as stated: Login answers 404 when no participant has the phone and 401
\* when the password does not match, creating no session; otherwise it adds
\* exactly one new session of that participant and keeps every earlier one.
LoginUnknownPhoneIs404 ==
    [][/\ (last'.op = "login" /\ LoginRows(last'.phone) = {})
          => (last'.status = 404 /\ LoginKeepsSessions)
       /\ LoginKnownPhone]_vars

\* C4 amended: Login answers 400 when the phone is empty or blank, 404 when a
\* non-blank phone belongs to no participant and 401 when the password does
\* not match, creating no session in any of the three cases; otherwise it adds
\* exactly one new session of that participant and keeps every earlier one.
LoginOutcomes ==
    [][/\ (last'.op = "login" /\ Strip(last'.phone) = <<>>)
          => (last'.status = 400 /\ LoginKeepsSessions)
       /\ (/\ last'.op = "login"
           /\ Strip(last'.phone) # <<>>
           /\ LoginRows(last'.phone) = {})
          => (last'.status = 404 /\ LoginKeepsSessions)
       /\ LoginKnownPhone]_vars

\* C4 witness: a login added a session while an earlier session of the same
\* participant is still stored
LoginAddedSecondSession ==
    /\ last.op = "login"
    /\ last.status = 200
    /\ \E s, t \in sessions :
          /\ s.id = last.session_id
          /\ t.id # s.id
          /\ t.participant_id = s.participant_id

\* C5: Logout deletes the session row named by the cookie and no other row of
\* any table; with no cookie or an unknown token the store is unchanged; after
\* it the token is not stored, so a second Logout with it changes nothing; a
\* deleted token is never stored again and ValidateSession accepts stored
\* tokens only.
LogoutDeletesExactlyItsSession ==
    [][/\ last'.op = "logout"
          => (/\ last'.status = 200
              /\ sessions' = {s \in sessions : s.id # last'.cookie}
              /\ last'.cookie \notin SessionIds(sessions')
              /\ <<participants, participants_id_seq, session_seq, questions,
                   questions_id_seq, answers, quiz_settings,
                   push_subscriptions, push_id_seq>>' =
                 <<participants, participants_id_seq, session_seq, questions,
                   questions_id_seq, answers, quiz_settings,
                   push_subscriptions, push_id_seq>>)
       /\ (last'.op = "logout" /\ last'.cookie \notin SessionIds(sessions))
          => store' = store
       /\ DeletedTokensStayDeleted
       /\ (last'.op = "me" /\ last'.status = 200)
          => last'.cookie \in SessionIds(sessions)]_vars

\* C5 witness: a logout removed a session and another session of the same
\* participant is still stored
LogoutKeptOtherSession ==
    /\ last.op = "logout"
    /\ last.cookie \in 1..session_seq
    /\ last.cookie \notin SessionIds(sessions)
    /\ last.participant_id \in {s.participant_id : s \in sessions}

----------------------------------------------------------------------------
(* Properties of the settings update *)

TimeKeys == {"quiz_open_time", "quiz_close_time"}

\* the value a supplied field asks to store under its key
Supplied(data, k) ==
    IF k = "current_day" THEN IntStr(data[k].value) ELSE data[k].value

\* C11 as stated: an authorized settings update stores every supplied field,
\* whatever its value (the empty string and 0 included), under its key, and
\* leaves every omitted field at its previous value.
SettingsWrittenIffSupplied ==
    [][(last'.op = "update_settings" /\ last'.status = 200)
       => \A k \in DOMAIN quiz_settings :
             quiz_settings'[k] = IF last'.data[k].given
                                 THEN Supplied(last'.data, k)
                                 ELSE quiz_settings[k]]_vars

\* C11 amended: an authorized settings update stores quiz_open_time and
\* quiz_close_time when they are supplied with a non-empty value, stores
\* current_day whenever it is supplied (0 included, as its decimal text), and
\* leaves every other setting, a time supplied as the empty string included,
\* at its previous value; no other table changes.
SettingsWrittenIffSuppliedNonEmpty ==
    [][(last'.op = "update_settings" /\ last'.status = 200)
       => /\ \A k \in DOMAIN quiz_settings :
                quiz_settings'[k] =
                    IF /\ last'.data[k].given
                       /\ (k \in TimeKeys => last'.data[k].value # <<>>)
                    THEN Supplied(last'.data, k)
                    ELSE quiz_settings[k]
          /\ DOMAIN quiz_settings' = DOMAIN quiz_settings
          /\ <<participants, sessions, questions, answers,
               push_subscriptions>>' =
             <<participants, sessions, questions, answers,
               push_subscriptions>>]_vars

\* C11 witness: an update that supplied an empty open time and day 0 left the
\* open time as it was and stored "0" as the current day
EmptyTimeSkippedDayZeroStored ==
    /\ last.op = "update_settings"
    /\ last.status = 200
    /\ last.data.quiz_open_time = Some(<<>>)
    /\ last.data.current_day = Some(0)
    /\ quiz_settings["quiz_open_time"] # <<>>
    /\ quiz_settings["current_day"] = <<"0">>

----------------------------------------------------------------------------
(* Properties of the notification dispatcher *)

\* C12 as stated: an authorized send to all subscriptions always completes
\* and reports counts, whatever way the deliveries fail: the subscriptions
\* whose delivery failed are deleted, those whose delivery succeeded are
\* kept, and sent + removed is the number of subscriptions stored before.
SendToAllAlwaysCompletes ==
    [][(last'.op = "send_push" /\ last'.token = "ramadan2026admin")
       => /\ last'.status = 200
          /\ push_subscriptions' =
                {r \in push_subscriptions : last'.outcome[r.id] = "sent"}
          /\ last'.body.sent + last'.body.removed =
                Cardinality(push_subscriptions)]_vars

----------------------------------------------------------------------------
(* Properties of the public questions listing *)

\* the questions table with the correct answers replaced by those of alt
WithCorrectAnswers(rows, alt) ==
    {[q EXCEPT !.correct_answer = alt[q.id]] : q \in rows}

\* C13: the responses of the public questions listing for a day do not
\* depend on the stored correct answers: on every questions table that
\* differs from the stored one only in correct_answer the listing has the
\* same possible responses, the response returned is one of them, and no
\* returned question carries a correct_answer field.
ListingIndependentOfCorrectAnswers ==
    /\ \A day \in ListingDays :
       \A alt \in [{q.id : q \in questions} -> ListingAnswers] :
          GetQuestionsBodies(WithCorrectAnswers(questions, alt), day) =
          GetQuestionsBodies(questions, day)
    /\ last.op = "get_questions"
       => /\ \A alt \in [{q.id : q \in questions} -> ListingAnswers] :
                last.body \in
                    GetQuestionsBodies(WithCorrectAnswers(questions, alt),
                                       last.day)
          /\ \A i \in 1..Len(last.body) :
                "correct_answer" \notin DOMAIN last.body[i]

\* C13 witness: a listing returned two questions whose stored correct answers
\* differ
ListedQuestionsWithDifferentAnswers ==
    /\ last.op = "get_questions"
    /\ Len(last.body) = 2
    /\ \E q, r \in questions :
          /\ q.day = last.day
          /\ r.day = last.day
          /\ q.correct_answer # r.correct_answer

----------------------------------------------------------------------------
(* Properties of concurrent registration *)

\* the sessions of participant p, stored or about to be stored by the
\* registration that created p
SessionsFor(p) ==
    Cardinality({s \in sessions : s.participant_id = p.id})
    + Cardinality({slot \in Slots :
                     /\ inflight[slot].pc = "register_session"
                     /\ inflight[slot].participant_id = p.id})

RegisterAnswered ==
    /\ last.op = "register"
    /\ last.status \in {200, 400, 500}

\* C14: under every interleaving of concurrent Register requests with the
\* same phone, no two participants have the same phone; a request creates a
\* participant only when none has its phone, and then it alone creates that
\* participant's one session; every other request is answered with an error
\* (400 or 500) and creates neither a participant nor a session; once a
\* request is answered exactly one participant has its phone.
OneRegistrationPerPhone ==
    [][/\ \A p, q \in participants' : p.phone = q.phone => p = q
       /\ (last'.op = "register" /\ last'.step = "insert"
           /\ last'.status = 0)
          => /\ PhoneRows(last'.phone) = {}
             /\ Cardinality(participants') = Cardinality(participants) + 1
             /\ sessions' = sessions
       /\ (last'.op = "register" /\ last'.status \in {400, 500})
          => /\ participants' = participants
             /\ sessions' = sessions
             /\ \A slot \in Slots :
                   inflight'[slot].pc # "register_session"
                   \/ inflight'[slot] = inflight[slot]
       /\ (last'.op = "register" /\ last'.status = 200)
          => /\ participants' = participants
             /\ Cardinality(sessions') = Cardinality(sessions) + 1
       /\ RegisterAnswered'
          => /\ Cardinality({p \in participants' :
                                p.phone = Strip(last'.phone)}) = 1
             /\ \A p \in participants' : SessionsFor(p)' = 1]_vars

\* C14 witness: two requests with the same phone both passed the lookup; one
\* created the participant and the other was answered 500
RegisterRaceLoserRefused ==
    /\ last.op = "register"
    /\ last.step = "insert"
    /\ last.status = 500
    /\ Cardinality(participants) = 1
    /\ \E slot \in Slots : inflight[slot].pc = "register_session"

----------------------------------------------------------------------------
(* Range of the points of one answer *)

\* C15 as stated: for every time_taken a client can submit (zero and
\* negative values included), a recorded answer has 0 points exactly when it
\* is incorrect and between 10 and 100 points when it is correct, so one
\* question never gives more than 100 points.
PointsBetweenFloorAndHundred ==
    \A a \in answers :
        /\ a.points = 0 <=> a.is_correct = 0
        /\ a.is_correct = 1 => (10 <= a.points /\ a.points <= 100)

====
